---- MODULE Spec2Model ----
(***************************************************************************)
(* A model of pypedal3's NewPedigree container (pyp_newclasses.py): the    *)
(* record sequence with its four identity maps, renumber / addanimal /     *)
(* delanimal / updateidmap, and the set-algebra operations __add__,        *)
(* __sub__ and intersection.                                               *)
(*                                                                         *)
(* Python values are modelled as follows.  A dict is a TLA+ function whose *)
(* DOMAIN is the dict's key set.  A list is a sequence; Python's 0-based   *)
(* and negative indexing is modelled by HasIdx / At.  An exception raised  *)
(* inside a try block is modelled by the branch that the except clause     *)
(* takes, with every assignment made before the raise kept.  The string    *)
(* form of an integer identity (the record's name) is the pair             *)
(* <<"str", id>>, which never equals the integer itself.  The pedigree     *)
(* format is the default 'asd' (integer animal, sire and dam identities).  *)
(***************************************************************************)
EXTENDS Integers, Sequences, FiniteSets, TLC

VARIABLES
    self,             \* the NewPedigree the methods are called on
    other,            \* the second NewPedigree of __add__/__sub__/intersection
    match_rule,       \* self.kw['match_rule'], a sequence of format codes
    ped_to_write,     \* the write flags of __add__/__sub__: [a |-> dict, b |-> dict]
    animals_to_write, \* the list intersection() collects
    pedfile,          \* the lines save() wrote to the merged pedigree file
    new_pedigree,     \* the value a merge operation returned (a container, or a marker)
    last,             \* the last call: [op, args, ret, pre], pre = self before the call
    nops,             \* number of container calls made so far
    sim               \* simulate(): its options, locals and position

vars == <<self, other, match_rule, ped_to_write, animals_to_write, pedfile,
          new_pedigree, last, nops, sim>>

(***************************************************************************)
(* Bounds of the model.                                                    *)
(***************************************************************************)
MaxLines == 3    \* lines of a pedigree file read at construction
MaxOps == 2      \* container calls made after construction
MaxMapOps == 3   \* the same, where only deletions and map rebuilds may come last
MaxA == 3        \* records of the left operand of a merge
MaxB == 4        \* records of the right operand of a merge
MaxUnrenumbered == 2   \* records of a merge operand loaded without renumbering
MaxPadDigits == 14  \* digits of the longest identity given to pad_id
MaxLoadLines == 2   \* lines of a file whose parents may be of either sex
MaxSimN == 5     \* largest simulate_n, all options varied
MaxSimDeepN == 7 \* largest simulate_n, two founder sires and dams, no immigrants
MaxSimCrowdedN == 10   \* largest target size of a run crowded with founders
MaxSimFounders == 3    \* largest simulate_ns and simulate_nd
MaxSimPmd == 2   \* largest simulate_pmd

(***************************************************************************)
(* Program constants.                                                      *)
(***************************************************************************)
missing_parent == 0
reorder_max_rounds == 100
unassigned == -999

(***************************************************************************)
(* Python helpers.                                                         *)
(***************************************************************************)
EmptyDict == [k \in {} |-> 0]

DictSet(d, k, v) == [x \in (DOMAIN d) \cup {k} |-> IF x = k THEN v ELSE d[x]]

DictDel(d, k) == [x \in (DOMAIN d) \ {k} |-> d[x]]

DictValues(d) == {d[k] : k \in DOMAIN d}

SetMax(S) == CHOOSE m \in S : \A x \in S : x <= m

Max2(x, y) == IF x >= y THEN x ELSE y

\* list[i] with a Python index: valid for -len <= i < len, negative from the end
HasIdx(s, i) == i >= -Len(s) /\ i < Len(s)

At(s, i) == IF i >= 0 THEN s[i + 1] ELSE s[Len(s) + i + 1]

\* del list[i]
DelAt(s, i) ==
    LET p == IF i >= 0 THEN i + 1 ELSE Len(s) + i + 1
    IN  SubSeq(s, 1, p - 1) \o SubSeq(s, p + 1, Len(s))

\* str(id)
Str(i) == <<"str", i>>

(***************************************************************************)
(* NewAnimal.__init__ for a three-field record [animal, sire, dam].        *)
(***************************************************************************)
NewAnimal(data) ==
    [ originalID   |-> data[1],
      animalID     |-> data[1],
      renumberedID |-> unassigned,
      name         |-> Str(data[1]),
      sireID       |-> IF Str(data[2]) # Str(missing_parent)
                       THEN data[2] ELSE missing_parent,
      damID        |-> IF Str(data[3]) # Str(missing_parent)
                       THEN data[3] ELSE missing_parent ]

(***************************************************************************)
(* NewPedigree.__init__: an empty container.                               *)
(***************************************************************************)
EmptyPedigree ==
    [ pedigree |-> << >>,
      idmap |-> EmptyDict,
      backmap |-> EmptyDict,
      namemap |-> EmptyDict,
      namebackmap |-> EmptyDict,
      pedigree_is_renumbered |-> 0 ]

(***************************************************************************)
(* NewPedigree.preprocess: one record per line, then one founder record    *)
(* for every sire, and then every dam, that has no record of its own.      *)
(* The name maps are reset on every line read.                             *)
(***************************************************************************)
RECURSIVE FirstSeen(_, _)
\* the keys of an insertion-ordered dict filled from the sequence s
FirstSeen(s, seen) ==
    IF s = << >> THEN << >>
    ELSE IF Head(s) \in seen THEN FirstSeen(Tail(s), seen)
    ELSE <<Head(s)>> \o FirstSeen(Tail(s), seen \cup {Head(s)})

preprocess_append(P, an) ==
    [P EXCEPT !.pedigree = Append(@, an),
              !.idmap = DictSet(@, an.animalID, an.animalID),
              !.backmap = DictSet(@, an.animalID, an.animalID),
              !.namemap = DictSet(@, an.name, an.animalID),
              !.namebackmap = DictSet(@, an.animalID, an.name)]

RECURSIVE preprocess_lines(_, _)
preprocess_lines(P, lines) ==
    IF lines = << >> THEN P
    ELSE preprocess_lines(
            preprocess_append([P EXCEPT !.namemap = EmptyDict,
                                        !.namebackmap = EmptyDict],
                              NewAnimal(Head(lines))),
            Tail(lines))

RECURSIVE preprocess_parents_unchecked(_, _)
\* the same loop without the idmap lookup
preprocess_parents_unchecked(P, keys) ==
    IF keys = << >> THEN P
    ELSE preprocess_parents_unchecked(
            preprocess_append(P, NewAnimal(<<Head(keys), missing_parent,
                                             missing_parent>>)),
            Tail(keys))

RECURSIVE preprocess_parents(_, _)
\* for _s in _sires (resp. _d in _dams): add a record when idmap has no entry
preprocess_parents(P, keys) ==
    IF keys = << >> THEN P
    ELSE IF Head(keys) \in DOMAIN P.idmap \/ Str(Head(keys)) = Str(missing_parent)
         THEN preprocess_parents(P, Tail(keys))
         ELSE preprocess_parents(
                 preprocess_append(P, NewAnimal(<<Head(keys), missing_parent,
                                                  missing_parent>>)),
                 Tail(keys))

preprocess(lines) ==
    LET recs   == [i \in 1..Len(lines) |-> NewAnimal(lines[i])]
        \* a parent equal to missing_parent is never entered in _sires/_dams
        _sires == FirstSeen([i \in 1..Len(recs) |-> recs[i].sireID], {missing_parent})
        _dams  == FirstSeen([i \in 1..Len(recs) |-> recs[i].damID], {missing_parent})
        P1 == preprocess_lines(EmptyPedigree, lines)
        P2 == preprocess_parents(P1, _sires)
    IN  preprocess_parents(P2, _dams)

(***************************************************************************)
(* pyp_utils.reorder and pyp_utils.renumber are not part of this file;     *)
(* they are modelled from the specification (section 4.2, phases A and B). *)
(***************************************************************************)
\* 1-based position of the first record whose animalID is id, 0 when none
IndexOf(ped, id) ==
    IF \E i \in 1..Len(ped) : ped[i].animalID = id
    THEN CHOOSE i \in 1..Len(ped) :
            /\ ped[i].animalID = id
            /\ \A j \in 1..(i - 1) : ped[j].animalID # id
    ELSE 0

ParentIndex(ped, p) == IF p = missing_parent THEN 0 ELSE IndexOf(ped, p)

\* no record precedes either of its known parents
Ordered(ped) ==
    \A i \in 1..Len(ped) :
        /\ ParentIndex(ped, ped[i].sireID) < i
        /\ ParentIndex(ped, ped[i].damID) < i

\* move the record at position i to just after position m (i < m)
MoveAfter(ped, i, m) ==
    SubSeq(ped, 1, i - 1) \o SubSeq(ped, i + 1, m) \o <<ped[i]>>
        \o SubSeq(ped, m + 1, Len(ped))

RECURSIVE reorder_pass(_, _, _)
\* one pass: each animal in turn is moved behind the later of its parents
reorder_pass(ped, ids, k) ==
    IF k > Len(ids) THEN ped
    ELSE LET i == IndexOf(ped, ids[k])
             m == Max2(ParentIndex(ped, ped[i].sireID),
                       ParentIndex(ped, ped[i].damID))
         IN  reorder_pass(IF m > i THEN MoveAfter(ped, i, m) ELSE ped, ids, k + 1)

RECURSIVE reorder_rounds(_, _, _)
reorder_rounds(ped, round, max_rounds) ==
    IF Ordered(ped) \/ round >= max_rounds THEN ped
    ELSE reorder_rounds(
            reorder_pass(ped, [i \in 1..Len(ped) |-> ped[i].animalID], 1),
            round + 1, max_rounds)

\* phase A: passes until ordered, capped at max_rounds (best effort beyond)
pyp_utils_reorder(ped, max_rounds) == reorder_rounds(ped, 0, max_rounds)

\* phase B: canonical identities 1..N by position, parents rewritten
pyp_utils_renumber(ped) ==
    [i \in 1..Len(ped) |->
        [ped[i] EXCEPT !.animalID = i,
                       !.renumberedID = i,
                       !.sireID = ParentIndex(ped, ped[i].sireID),
                       !.damID = ParentIndex(ped, ped[i].damID)]]

(***************************************************************************)
(* NewPedigree.updateidmap                                                 *)
(***************************************************************************)
RECURSIVE updateidmap_loop(_, _)
updateidmap_loop(P, i) ==
    IF i > Len(P.pedigree) THEN P
    ELSE LET _a == P.pedigree[i]
         IN  updateidmap_loop(
                [P EXCEPT !.idmap = DictSet(@, _a.originalID, _a.animalID),
                          !.backmap = DictSet(@, _a.renumberedID, _a.originalID),
                          !.namemap = DictSet(@, _a.name, _a.originalID),
                          !.namebackmap = DictSet(@, _a.originalID, _a.name)],
                i + 1)

\* updateidmap() without the four clearing assignments
updateidmap_without_clear(P) == updateidmap_loop(P, 1)

updateidmap(P) ==
    updateidmap_loop([P EXCEPT !.idmap = EmptyDict,
                               !.backmap = EmptyDict,
                               !.namemap = EmptyDict,
                               !.namebackmap = EmptyDict], 1)

(***************************************************************************)
(* NewPedigree.renumber                                                    *)
(***************************************************************************)
\* renumber() without the reordering step
renumber_without_reorder(P) ==
    [updateidmap([P EXCEPT !.pedigree = pyp_utils_renumber(P.pedigree)])
        EXCEPT !.pedigree_is_renumbered = 1]

renumber(P) ==
    LET reordered  == pyp_utils_reorder(P.pedigree, reorder_max_rounds)
        renumbered == pyp_utils_renumber(reordered)
    IN  [updateidmap([P EXCEPT !.pedigree = renumbered])
            EXCEPT !.pedigree_is_renumbered = 1]

(***************************************************************************)
(* NewPedigree.addanimal.  The record is appended before its canonical     *)
(* identity and parents are resolved; any exception after that leaves the  *)
(* appended record in the list and returns 0.                              *)
(***************************************************************************)
SetLast(ped, an) == [ped EXCEPT ![Len(ped)] = an]

addanimal(P, animalID, sireID, damID) ==
    LET l  == << animalID,
                 IF sireID = 0 THEN missing_parent ELSE sireID,
                 IF damID = 0 THEN missing_parent ELSE damID >>
        an == NewAnimal(l)
        P1 == [P EXCEPT !.pedigree = Append(@, an)]
    IN  IF DOMAIN P.idmap = {}
        THEN \* max() of an empty sequence raises ValueError
             [ped |-> P1, ret |-> 0]
        ELSE
        LET newid == SetMax(DictValues(P.idmap)) + 1
            an2 == [an EXCEPT !.animalID = newid, !.renumberedID = newid]
            P2  == [P1 EXCEPT !.pedigree = SetLast(@, an2)]
        IN  IF an2.sireID \notin DOMAIN P.idmap
            THEN [ped |-> P2, ret |-> 0]          \* KeyError on the sire
            ELSE
            LET an3 == [an2 EXCEPT !.sireID = P.idmap[an2.sireID]]
                P3  == [P2 EXCEPT !.pedigree = SetLast(@, an3)]
            IN  IF an3.damID \notin DOMAIN P.idmap
                THEN [ped |-> P3, ret |-> 0]      \* KeyError on the dam
                ELSE
                LET an4 == [an3 EXCEPT !.damID = P.idmap[an3.damID]]
                IN  [ped |-> [P3 EXCEPT
                        !.pedigree = SetLast(@, an4),
                        !.idmap = DictSet(@, an4.originalID, an4.animalID),
                        !.backmap = DictSet(@, an4.animalID, an4.originalID),
                        !.namemap = DictSet(@, an4.name, an4.originalID),
                        !.namebackmap = DictSet(@, an4.originalID, an4.name)],
                     ret |-> 1]

(***************************************************************************)
(* NewPedigree.delanimal.  The position is idmap[animalID] - 1; each del   *)
(* may raise, and whatever was deleted before the raise stays deleted.     *)
(***************************************************************************)
delanimal(P, animalID) ==
    IF animalID \notin DOMAIN P.idmap THEN [ped |-> P, ret |-> 0]
    ELSE
    LET anidx == P.idmap[animalID] - 1
    IN  IF ~HasIdx(P.pedigree, anidx) THEN [ped |-> P, ret |-> 0]
        ELSE
        LET rec == At(P.pedigree, anidx)
        IN  IF rec.originalID \notin DOMAIN P.namebackmap
            THEN [ped |-> P, ret |-> 0]
            ELSE
            LET P1 == [P EXCEPT !.namebackmap = DictDel(@, rec.originalID)]
            IN  IF rec.name \notin DOMAIN P1.namemap
                THEN [ped |-> P1, ret |-> 0]
                ELSE
                LET P2 == [P1 EXCEPT !.namemap = DictDel(@, rec.name)]
                IN  IF rec.renumberedID \notin DOMAIN P2.backmap
                    THEN [ped |-> P2, ret |-> 0]
                    ELSE [ped |-> [P2 EXCEPT
                                !.backmap = DictDel(@, rec.renumberedID),
                                !.idmap = DictDel(@, animalID),
                                !.pedigree = DelAt(@, anidx)],
                          ret |-> 1]

(***************************************************************************)
(* NewPedigree.save(write_list=..., pedformat='asd', originalID=True): one *)
(* line "animal sire dam" in original identities for every record whose    *)
(* flag is set; an empty write_list is falsy and selects every record.     *)
(***************************************************************************)
save_value(P, ref) ==
    IF ref # missing_parent THEN At(P.pedigree, ref - 1).originalID ELSE 0

save_selected(P, write_list, _a) ==
    (DOMAIN write_list = {}) \/ write_list[_a.animalID]

RECURSIVE save_lines(_, _, _)
save_lines(P, write_list, i) ==
    IF i > Len(P.pedigree) THEN << >>
    ELSE LET _a == P.pedigree[i]
         IN  IF DOMAIN write_list # {} /\ _a.animalID \notin DOMAIN write_list
             THEN << >>      \* KeyError: save() stops and returns 0
             ELSE (IF save_selected(P, write_list, _a)
                   THEN << <<_a.originalID, save_value(P, _a.sireID),
                              save_value(P, _a.damID)>> >>
                   ELSE << >>)
                  \o save_lines(P, write_list, i + 1)

save(P, write_list) == save_lines(P, write_list, 1)

\* load_pedigree() on the written file with the option renumber = 1
\* (obj names the object returned: load_pedigree() constructs a NewPedigree)
load_pedigree(lines) ==
    [kind |-> "pedigree", obj |-> "_pedigree", ped |-> renumber(preprocess(lines))]

\* the precondition step of the merge operations
renumber_if_needed(P) == IF P.pedigree_is_renumbered # 1 THEN renumber(P) ELSE P

(***************************************************************************)
(* NewPedigree.__add__.  A NewAnimal instance compared with the integer    *)
(* missing_parent is never equal to it (NewAnimal defines no __eq__).      *)
(***************************************************************************)
ObjNe(rec, v) == TRUE

ObjEq(rec, v) == FALSE

add_mismatch(S, O, a, b, match) ==
    IF match = "a" THEN a.originalID # b.originalID
    ELSE IF match = "s" THEN
        IF ObjNe(At(S.pedigree, a.sireID), missing_parent)
              /\ ObjNe(At(O.pedigree, b.sireID), missing_parent)
        THEN At(S.pedigree, a.sireID - 1).originalID
                # At(O.pedigree, b.sireID - 1).originalID
        ELSE IF ObjEq(At(S.pedigree, a.sireID), missing_parent)
                  /\ ObjNe(At(O.pedigree, b.sireID), missing_parent)
        THEN TRUE
        ELSE IF ObjNe(At(S.pedigree, a.sireID), missing_parent)
                  /\ ObjEq(At(O.pedigree, b.sireID), missing_parent)
        THEN TRUE
        ELSE FALSE
    ELSE \* match = "d"
        IF ObjNe(At(S.pedigree, a.damID), missing_parent)
              /\ ObjNe(At(O.pedigree, b.damID), missing_parent)
        THEN At(S.pedigree, a.damID - 1).originalID
                # At(O.pedigree, b.damID - 1).originalID
        ELSE IF ObjEq(At(S.pedigree, a.sireID), missing_parent)
                  /\ ObjNe(At(O.pedigree, b.sireID), missing_parent)
        THEN TRUE
        ELSE IF ObjNe(At(S.pedigree, a.sireID), missing_parent)
                  /\ ObjEq(At(O.pedigree, b.sireID), missing_parent)
        THEN TRUE
        ELSE FALSE

add_mismatches(S, O, a, b, rule) ==
    Cardinality({k \in 1..Len(rule) : add_mismatch(S, O, a, b, rule[k])})

\* the flag written for b after comparing it with one a, negated
add_flag_negated(mismatches) == mismatches = 0

\* the flag written for b after comparing it with one a
add_flag(mismatches) == mismatches # 0

RECURSIVE add_scan(_, _, _, _, _, _)
\* for a in self.pedigree: for b in other.pedigree: ...
add_scan(S, O, rule, w, i, j) ==
    IF i > Len(S.pedigree) THEN w
    ELSE LET a  == S.pedigree[i]
             w1 == [w EXCEPT !.a = DictSet(@, a.animalID, TRUE)]
         IN  IF j > Len(O.pedigree) THEN add_scan(S, O, rule, w1, i + 1, 1)
             ELSE LET b == O.pedigree[j]
                  IN  add_scan(S, O, rule,
                         [w1 EXCEPT !.b = DictSet(@, b.animalID,
                              add_flag(add_mismatches(S, O, a, b, rule)))],
                         i, j + 1)

\* __add__ merging into self and returning self
add_in_place(S0, O0, rule) ==
    LET S == renumber_if_needed(S0)
        O == renumber_if_needed(O0)
        w == add_scan(S, O, rule, [a |-> EmptyDict, b |-> EmptyDict], 1, 1)
        f == save(S, w.a) \o save(O, w.b)
    IN  [self |-> renumber(preprocess(f)), other |-> O, ped_to_write |-> w, pedfile |-> f,
         ret |-> [kind |-> "pedigree", obj |-> "self", ped |-> renumber(preprocess(f))]]

__add__(S0, O0, rule) ==
    LET S == renumber_if_needed(S0)
        O == renumber_if_needed(O0)
        w == add_scan(S, O, rule, [a |-> EmptyDict, b |-> EmptyDict], 1, 1)
        f == save(S, w.a) \o save(O, w.b)
    IN  [self |-> S, other |-> O, ped_to_write |-> w, pedfile |-> f,
         ret |-> load_pedigree(f)]

(***************************************************************************)
(* NewPedigree.union: self.__add__(self, other, filename, debug_load).     *)
(* The bound method already supplies self, so the call hands __add__ five  *)
(* positional arguments; __add__ accepts at most four and the call raises  *)
(* TypeError before the body of __add__ runs.  union() has no return       *)
(* statement.                                                              *)
(***************************************************************************)
add_max_positional == 4

union(S, O, rule) ==
    LET arguments == <<S, S, O, "filename", "debug_load">>
    IN  IF Len(arguments) > add_max_positional
        THEN [self |-> S, other |-> O,
              ret |-> [kind |-> "TypeError", obj |-> "none", ped |-> EmptyPedigree]]
        ELSE [self |-> __add__(S, S, rule).self, other |-> O,
              ret |-> [kind |-> "None", obj |-> "none", ped |-> EmptyPedigree]]

(***************************************************************************)
(* NewPedigree.__sub__.  The mismatch counter is set to 0 once, before the *)
(* loops, and the flags are decided once, after the loops, for the last a  *)
(* and the last b.                                                         *)
(***************************************************************************)
sub_mismatch(S, O, a, b, match) ==
    IF match = "a" THEN a.originalID # b.originalID
    ELSE IF match = "s"
    THEN At(S.pedigree, a.sireID - 1).originalID # At(O.pedigree, b.sireID - 1).originalID
    ELSE At(S.pedigree, a.damID - 1).originalID # At(O.pedigree, b.damID - 1).originalID

RECURSIVE sub_scan(_, _, _, _, _, _)
\* st = [w, mismatches]
sub_scan(S, O, rule, st, i, j) ==
    IF i > Len(S.pedigree) THEN st
    ELSE LET a   == S.pedigree[i]
             st1 == [st EXCEPT !.w.a = DictSet(@, a.animalID, TRUE)]
         IN  IF j > Len(O.pedigree) THEN sub_scan(S, O, rule, st1, i + 1, 1)
             ELSE LET b == O.pedigree[j]
                      n == Cardinality({k \in 1..Len(rule) :
                                          sub_mismatch(S, O, a, b, rule[k])})
                  IN  sub_scan(S, O, rule,
                         [st1 EXCEPT !.w.b = DictSet(@, b.animalID, FALSE),
                                     !.mismatches = @ + n],
                         i, j + 1)

__sub__(S0, O0, rule) ==
    LET S  == renumber_if_needed(S0)
        O  == renumber_if_needed(O0)
        st == sub_scan(S, O, rule,
                       [w |-> [a |-> EmptyDict, b |-> EmptyDict], mismatches |-> 0],
                       1, 1)
        \* after the loops a and b are the last records of the two sequences
        a  == S.pedigree[Len(S.pedigree)]
        b  == O.pedigree[Len(O.pedigree)]
        w  == IF st.mismatches = 0
              THEN [st.w EXCEPT !.a = DictSet(@, a.animalID, FALSE)]
              ELSE [st.w EXCEPT !.b = DictSet(@, b.animalID, TRUE)]
        f  == save(S, w.a) \o save(O, w.b)
    IN  [self |-> S, other |-> O, ped_to_write |-> w, pedfile |-> f,
         ret |-> load_pedigree(f)]

(***************************************************************************)
(* NewPedigree.intersection (called without a filename).  The match count  *)
(* is tested after the loop over other.pedigree, so it is that of the last *)
(* b.  Writing the file reads self.pedformat, an attribute the class never *)
(* sets, so the call ends in an AttributeError after the scan.             *)
(***************************************************************************)
intersection_match(S, O, a, b, match) ==
    IF match = "a" THEN a.originalID = b.originalID
    ELSE IF match = "s"
    THEN At(S.pedigree, a.sireID - 1).originalID = At(O.pedigree, b.sireID - 1).originalID
    ELSE At(S.pedigree, a.damID - 1).originalID = At(O.pedigree, b.damID - 1).originalID

intersection_matches(S, O, a, b, rule) ==
    Cardinality({k \in 1..Len(rule) : intersection_match(S, O, a, b, rule[k])})

RECURSIVE intersection_scan(_, _, _, _, _)
intersection_scan(S, O, rule, out, i) ==
    IF i > Len(S.pedigree) THEN out
    ELSE LET a == S.pedigree[i]
             \* matches as left by the last pass of the inner loop
             matches == intersection_matches(S, O, a, O.pedigree[Len(O.pedigree)], rule)
         IN  intersection_scan(S, O, rule,
                IF matches = Len(rule) THEN Append(out, a) ELSE out, i + 1)

intersection(S0, O0, rule) ==
    LET S == renumber_if_needed(S0)
        O == renumber_if_needed(O0)
    IN  [self |-> S, other |-> O,
         animals_to_write |-> intersection_scan(S, O, rule, << >>, 1),
         ret |-> [kind |-> "AttributeError", obj |-> "none", ped |-> EmptyPedigree]]

(***************************************************************************)
(* NewPedigree.simulate and SimAnimal.  Logging and printing are not       *)
(* modelled.  The real-valued options simulate_sr and simulate_ir and the  *)
(* variates of numpy.random.ranf() are counted in tenths.  The number of   *)
(* slots of a generation, _npg, is the integer quotient that range() needs.*)
(***************************************************************************)
default_simulate_n == 15
default_simulate_g == 3
default_simulate_ns == 4
default_simulate_nd == 4
default_simulate_sr == 5
default_simulate_ir == 5
default_simulate_pmd == 100

SimAnimal(animalID, sireID, damID, sex, gen) ==
    [animalID |-> animalID, sireID |-> sireID, damID |-> damID, sex |-> sex, gen |-> gen]

\* an empty slot of _pedholder
None == [animalID |-> -1, sireID |-> 0, damID |-> 0, sex |-> "None", gen |-> 0]

\* int(round(num / den)): Python rounds a half to the even neighbour
RoundHalfEven(num, den) ==
    LET q == num \div den
        r == num % den
    IN  IF 2 * r < den THEN q
        ELSE IF 2 * r > den THEN q + 1
        ELSE IF q % 2 = 0 THEN q ELSE q + 1

\* the options after the substitution of defaults, up to the founder checks
simulate_defaults(kw) ==
    [kw EXCEPT !.simulate_n  = IF @ < 1 THEN default_simulate_n ELSE @,
               !.simulate_g  = IF @ < 1 THEN default_simulate_g ELSE @,
               !.simulate_ns = IF @ < 1 THEN default_simulate_ns ELSE @,
               !.simulate_nd = IF @ < 1 THEN default_simulate_nd ELSE @,
               !.simulate_sr = IF @ < 0 \/ @ > 10 THEN default_simulate_sr ELSE @,
               !.simulate_ir = IF @ < 0 \/ @ > 10 THEN default_simulate_ir ELSE @]

\* the three founder checks that end in sys.exit(0)
simulate_exits(kw) ==
    \/ kw.simulate_ns >= kw.simulate_n
    \/ kw.simulate_nd >= kw.simulate_n
    \/ (kw.simulate_ns + kw.simulate_ns) > kw.simulate_n

simulate_pmd_default(kw) ==
    [kw EXCEPT !.simulate_pmd = IF @ < 1 THEN default_simulate_pmd ELSE @]

\* the pools: dams 0 .. _snd-1, sires 0 and _snd+1 .. _snd+_sns-1
founder_females(_snd) == [i \in 1.._snd |-> i - 1]

founder_males(_snd, _sns) == [i \in 1.._sns |-> IF i - 1 = 0 THEN 0 ELSE _snd + (i - 1)]

founder_pedholder(_snt, _snd, _totalna, females, males) ==
    [i \in 0.._snt |->
        IF i < _snd THEN SimAnimal(females[i + 1], 0, 0, "f", 0)
        ELSE IF i < _totalna THEN SimAnimal(males[i - _snd + 1], 0, 0, "m", 0)
        ELSE None]

SimIdle ==
    [pc |-> "idle",
     kw |-> [simulate_n |-> 0, simulate_g |-> 0, simulate_ns |-> 0, simulate_nd |-> 0,
             simulate_sr |-> 0, simulate_ir |-> 0, simulate_mp |-> 0, simulate_po |-> 0,
             simulate_fs |-> 0, simulate_pmd |-> 0],
     _snt |-> 0, _npg |-> 0, _smf |-> 0, _smm |-> 0,
     _tgdam |-> 0, _tdam |-> 0, _tgsire |-> 0, _tsire |-> 0,
     females |-> << >>, males |-> << >>, _totalna |-> 0, _pedholder |-> << >>,
     g |-> 0, _j |-> 0, _ntry |-> 0, _selsire |-> 0, _seldam |-> 0,
     \* history: draws made for the current offspring, how its parents were
     \* settled, the offspring whose parents the rejection loop accepted, and
     \* the variate drawn for the sex of the newest animal
     draws |-> 0, how |-> "none", accepted |-> {}, sexdraw |-> 0]

\* simulate() from its entry to the start of the generation loop
simulate_setup(kw0) ==
    LET kw1 == simulate_defaults(kw0)
    IN  IF simulate_exits(kw1) THEN [SimIdle EXCEPT !.pc = "sys.exit", !.kw = kw1]
        ELSE
        LET kw   == simulate_pmd_default(kw1)
            _snt == kw.simulate_n + 2
            _sng == kw.simulate_g
            _sns == kw.simulate_ns
            _snd == kw.simulate_nd
            _ssr == kw.simulate_sr
            _sff == RoundHalfEven(_snt, 10)
            _smd == RoundHalfEven((_snt - _sns - _snd) * (10 - _ssr), 10)
            _sms == RoundHalfEven((_snt - _sns - _snd) * _ssr, 10)
            females == founder_females(_snd)
            males   == founder_males(_snd, _sns)
            _totalna == _snd + _sns
        IN  \* _pedholder has _snt + 1 slots; the founders fill 0 .. _totalna-1
            IF _totalna > _snt + 1 THEN [SimIdle EXCEPT !.pc = "IndexError", !.kw = kw]
            ELSE
            [SimIdle EXCEPT
                !.pc = "generation", !.kw = kw,
                !._snt = _snt,
                !._npg = ((_snt - _snd - _sns) \div _sng) + 1,
                !._smf = _snd + _smd + _sff,
                !._smm = _sns + _sms + _sff,
                !._tgdam = _snd, !._tdam = _snd, !._tgsire = _sns, !._tsire = _sns,
                !.females = females, !.males = males,
                !._totalna = _totalna,
                !._pedholder = founder_pedholder(_snt, _snd, _totalna, females, males)]

\* for g in range(_sng): the head of the loop body
simulate_generation(m) ==
    IF m.g >= m.kw.simulate_g THEN [m EXCEPT !.pc = "translate"]
    ELSE IF m._totalna >= m._snt
    THEN [m EXCEPT !.pc = "translate", !._tgdam = m._tdam, !._tgsire = m._tsire]
    ELSE [m EXCEPT !.pc = "slot", !._j = 0, !._tgdam = m._tdam, !._tgsire = m._tsire]

\* for _j in range(_npg): the head of the loop body and the immigration draw
simulate_slot(m, ranf) ==
    IF m._j >= m._npg \/ m._totalna >= m._snt
    THEN [m EXCEPT !.pc = "generation", !.g = @ + 1]
    ELSE IF ranf > m.kw.simulate_ir
    THEN [m EXCEPT !.pc = "draw", !._ntry = 0, !.draws = 0, !.how = "drawing"]
    ELSE [m EXCEPT !.pc = "sex", !._selsire = 0, !._seldam = 0,
                   !.draws = 0, !.how = "immigrant"]

\* the values numpy.random.randint(low, high) can return; none if low >= high
randint(low, high) == low .. (high - 1)

\* the indices the draw of a sire and the draw of a dam can return
sire_indices(m) == randint(0, Len(m.males) - 1)

dam_indices(m) == randint(0, Len(m.females) - 1)

\* the parental restrictions of one drawn pair; TRUE means draw again
simulate_tryagain(m, _s, _d) ==
    LET _dd == m._pedholder[_d].damID
        _ds == m._pedholder[_d].sireID
        _sd == m._pedholder[_s].damID
        _ss == m._pedholder[_s].sireID
        po  == m.kw.simulate_po = 0
                 /\ ((_d > 0 /\ _sd = _d) \/ (_s > 0 /\ _ss = _s))
        fs  == m.kw.simulate_fs = 0
                 /\ (_ss > 0 /\ _sd = 0) /\ (_ss = _ds /\ _sd = _dd)
    IN  po \/ fs

\* the limit test of the rejection loop
simulate_gives_up(_ntry, _spmd) == _ntry > _spmd

\* one pass of the while loop with the two variates drawn
simulate_draw(m, sire_draw, dam_draw) ==
    LET _smp     == m.kw.simulate_mp
        _selsire == IF sire_draw = 0 THEN 1 - _smp ELSE sire_draw
        _seldam  == IF dam_draw = 0 THEN 1 - _smp ELSE dam_draw
        _d       == m.females[_seldam + 1]
        _s       == m.males[_selsire + 1]
        again    == simulate_tryagain(m, _s, _d)
        _ntry    == IF again THEN m._ntry + 1 ELSE m._ntry
    IN  IF simulate_gives_up(_ntry, m.kw.simulate_pmd)
        THEN [m EXCEPT !.pc = "sex", !._ntry = _ntry, !._selsire = 0, !._seldam = 0,
                       !.draws = @ + 1, !.how = "forced"]
        ELSE IF ~again
        THEN [m EXCEPT !.pc = "sex", !._ntry = _ntry,
                       !._selsire = _selsire, !._seldam = _seldam,
                       !.draws = @ + 1, !.how = "accepted"]
        ELSE [m EXCEPT !._ntry = _ntry, !._selsire = _selsire, !._seldam = _seldam,
                       !.draws = @ + 1]

\* the new animal made male whenever it is not made female by the draw
simulate_sex_without_quota(m, ranf) ==
    LET _totalna == m._totalna + 1
        sire == m.males[m._selsire + 1]
        dam  == m.females[m._seldam + 1]
        acc  == IF m.how = "accepted" THEN m.accepted \cup {_totalna} ELSE m.accepted
    IN  IF ranf < m.kw.simulate_sr /\ m._tgdam < m._smf
        THEN [m EXCEPT !._tgdam = @ + 1, !._tdam = m._tgdam + 1, !._tsire = m._tgsire,
                 !.females = Append(@, _totalna),
                 !._pedholder[_totalna] = SimAnimal(_totalna, sire, dam, "f", m.g + 1),
                 !._totalna = _totalna, !._j = @ + 1, !.pc = "slot", !.accepted = acc,
                 !.sexdraw = ranf]
        ELSE [m EXCEPT !._tgsire = @ + 1, !._tsire = m._tgsire + 1, !._tdam = m._tgdam,
                 !.males = Append(@, _totalna),
                 !._pedholder[_totalna] = SimAnimal(_totalna, sire, dam, "m", m.g + 1),
                 !._totalna = _totalna, !._j = @ + 1, !.pc = "slot", !.accepted = acc,
                 !.sexdraw = ranf]

\* the new animal recorded with the last entry of its grown pool as parent
simulate_sex_reads_appended(m, ranf) ==
    LET _totalna == m._totalna + 1
        acc  == IF m.how = "accepted" THEN m.accepted \cup {_totalna} ELSE m.accepted
        sex  == IF ranf < m.kw.simulate_sr /\ m._tgdam < m._smf THEN "f"
                ELSE IF m._tgsire < m._smm THEN "m" ELSE "f"
        females == IF sex = "f" THEN Append(m.females, _totalna) ELSE m.females
        males   == IF sex = "m" THEN Append(m.males, _totalna) ELSE m.males
        _tgdam  == IF sex = "f" THEN m._tgdam + 1 ELSE m._tgdam
        _tgsire == IF sex = "m" THEN m._tgsire + 1 ELSE m._tgsire
    IN  [m EXCEPT !._tgdam = _tgdam, !._tdam = _tgdam, !._tgsire = _tgsire,
                  !._tsire = _tgsire, !.females = females, !.males = males,
                  !._pedholder[_totalna] =
                      SimAnimal(_totalna, males[Len(males)], females[Len(females)],
                                sex, m.g + 1),
                  !._totalna = _totalna, !._j = @ + 1, !.pc = "slot", !.accepted = acc,
                  !.sexdraw = ranf]

\* the new animal: its sex, its pool and its slot in _pedholder
simulate_sex(m, ranf) ==
    LET _totalna == m._totalna + 1
        sire == m.males[m._selsire + 1]
        dam  == m.females[m._seldam + 1]
        acc  == IF m.how = "accepted" THEN m.accepted \cup {_totalna} ELSE m.accepted
        female == [m EXCEPT !._tgdam = @ + 1, !._tdam = m._tgdam + 1, !._tsire = m._tgsire,
                      !.females = Append(@, _totalna),
                      !._pedholder[_totalna] = SimAnimal(_totalna, sire, dam, "f", m.g + 1),
                      !._totalna = _totalna, !._j = @ + 1, !.pc = "slot", !.accepted = acc,
                      !.sexdraw = ranf]
        male   == [m EXCEPT !._tgsire = @ + 1, !._tsire = m._tgsire + 1, !._tdam = m._tgdam,
                      !.males = Append(@, _totalna),
                      !._pedholder[_totalna] = SimAnimal(_totalna, sire, dam, "m", m.g + 1),
                      !._totalna = _totalna, !._j = @ + 1, !.pc = "slot", !.accepted = acc,
                      !.sexdraw = ranf]
    IN  IF ranf < m.kw.simulate_sr /\ m._tgdam < m._smf THEN female
        ELSE IF m._tgsire < m._smm THEN male
        ELSE female

\* the records made from _pedholder, the two entries with identity 0 left out
RECURSIVE simulate_translate(_, _, _)
simulate_translate(P, _pedholder, i) ==
    IF i \notin DOMAIN _pedholder THEN P
    ELSE LET _ip == _pedholder[i]
         IN  IF _ip # None /\ _ip.animalID # 0
             THEN LET an == NewAnimal(<<_ip.animalID,
                                IF _ip.sireID = 0 THEN missing_parent ELSE _ip.sireID,
                                IF _ip.damID = 0 THEN missing_parent ELSE _ip.damID>>)
                  IN  simulate_translate(
                         [P EXCEPT !.pedigree = Append(@, an),
                                   !.idmap = DictSet(@, an.animalID, an.animalID),
                                   !.backmap = DictSet(@, an.animalID, an.animalID),
                                   !.namemap = DictSet(@, an.name, an.animalID),
                                   !.namebackmap = DictSet(@, an.animalID, an.name)],
                         _pedholder, i + 1)
             ELSE simulate_translate(P, _pedholder, i + 1)

(***************************************************************************)
(* Inputs: pedigree files of up to MaxLines lines "animal sire dam" over   *)
(* the identities 1..MaxLines, in any line order; sires are drawn from the *)
(* odd identities and dams from the even ones.  A parent may lack a line   *)
(* of its own, and the parent relation may be cyclic.                      *)
(***************************************************************************)
AnimalIDs == 1..MaxLines

SireIDs == {missing_parent} \cup {i \in AnimalIDs : i % 2 = 1}

DamIDs == {missing_parent} \cup {i \in AnimalIDs : i % 2 = 0}

LineOrders ==
    UNION {{o \in [1..n -> AnimalIDs] : \A i, j \in 1..n : i # j => o[i] # o[j]}
           : n \in 1..MaxLines}

PedFiles ==
    UNION {{[i \in 1..Len(o) |-> <<o[i], f[i][1], f[i][2]>>]
              : f \in {g \in [1..Len(o) -> SireIDs \X DamIDs] :
                         \A i \in 1..Len(o) : g[i][1] # o[i] /\ g[i][2] # o[i]}}
           : o \in LineOrders}

\* the ancestors of animalID x through at most k parent links
RECURSIVE AncestorsUpTo(_, _, _)
AncestorsUpTo(ped, S, k) ==
    IF k = 0 THEN S
    ELSE AncestorsUpTo(ped,
            S \cup UNION {{ped[i].sireID, ped[i].damID} \ {missing_parent}
                          : i \in {j \in 1..Len(ped) : ped[j].animalID \in S}},
            k - 1)

ParentsOf(ped, i) == {ped[i].sireID, ped[i].damID} \ {missing_parent}

\* no animal is its own ancestor
Acyclic(ped) ==
    \A i \in 1..Len(ped) :
        ped[i].animalID \notin AncestorsUpTo(ped, ParentsOf(ped, i), Len(ped))

AcyclicFiles == {lines \in PedFiles : Acyclic(preprocess(lines).pedigree)}

\* arguments of addanimal and delanimal
FreshID == MaxLines + 1

UnknownID == MaxLines + 2

AddIDs == {1, FreshID}

SireArgs == {0, 1, UnknownID}

DamArgs == {0, 2, UnknownID}

DelIDs == 1..FreshID

(***************************************************************************)
(* State machine of one container.                                         *)
(***************************************************************************)
NoCall == [op |-> "none", args |-> << >>, ret |-> 0, pre |-> EmptyPedigree]

NoFlags == [a |-> EmptyDict, b |-> EmptyDict]

NoResult == [kind |-> "none", obj |-> "none", ped |-> EmptyPedigree]

MergeIdle ==
    /\ sim = SimIdle
    /\ other = EmptyPedigree
    /\ match_rule = << >>
    /\ ped_to_write = NoFlags
    /\ animals_to_write = << >>
    /\ pedfile = << >>
    /\ new_pedigree = NoResult

\* load_pedigree() with the renumber option: preprocess, then renumber
Init ==
    /\ self \in {renumber(preprocess(lines)) : lines \in AcyclicFiles}
    /\ last = NoCall
    /\ nops = 0
    /\ MergeIdle

\* load_pedigree() without the renumber option
InitLoaded ==
    /\ self \in {preprocess(lines) : lines \in PedFiles}
    /\ last = NoCall
    /\ nops = 0
    /\ MergeIdle

MergeUnchanged ==
    UNCHANGED <<sim, other, match_rule, ped_to_write, animals_to_write, pedfile,
                new_pedigree>>

RenumberUpTo(n) ==
    /\ nops < n
    /\ self' = renumber(self)
    /\ last' = [op |-> "renumber", args |-> << >>, ret |-> 0, pre |-> self]
    /\ nops' = nops + 1
    /\ MergeUnchanged

UpdateIdMapUpTo(n) ==
    /\ nops < n
    /\ self' = updateidmap(self)
    /\ last' = [op |-> "updateidmap", args |-> << >>, ret |-> 0, pre |-> self]
    /\ nops' = nops + 1
    /\ MergeUnchanged

AddAnimalUpTo(n) ==
    /\ nops < n
    /\ \E animalID \in AddIDs, sireID \in SireArgs, damID \in DamArgs :
          LET r == addanimal(self, animalID, sireID, damID)
          IN  /\ self' = r.ped
              /\ last' = [op |-> "addanimal",
                          args |-> <<animalID, sireID, damID>>, ret |-> r.ret,
                          pre |-> self]
    /\ nops' = nops + 1
    /\ MergeUnchanged

DelAnimalUpTo(n) ==
    /\ nops < n
    /\ \E animalID \in DelIDs :
          LET r == delanimal(self, animalID)
          IN  /\ self' = r.ped
              /\ last' = [op |-> "delanimal", args |-> <<animalID>>, ret |-> r.ret,
                          pre |-> self]
    /\ nops' = nops + 1
    /\ MergeUnchanged

Renumber == RenumberUpTo(MaxOps)

UpdateIdMap == UpdateIdMapUpTo(MaxOps)

AddAnimal == AddAnimalUpTo(MaxOps)

DelAnimal == DelAnimalUpTo(MaxOps)

Next == Renumber \/ UpdateIdMap \/ AddAnimal \/ DelAnimal

Spec == Init /\ [][Next]_vars

\* a freshly loaded, not yet renumbered container
NextRenumber == Renumber \/ UpdateIdMap

SpecRenumber == InitLoaded /\ [][NextRenumber]_vars

\* deletions only
NextDel == DelAnimal

SpecDel == Init /\ [][NextDel]_vars

\* insertions only
NextAdd == AddAnimal

SpecAdd == Init /\ [][NextAdd]_vars

\* insertions, deletions and map rebuilds
NextMaps == AddAnimal \/ DelAnimal \/ UpdateIdMap

SpecMaps == Init /\ [][NextMaps]_vars

\* as SpecMaps, with one more deletion or rebuild allowed
NextUpdate ==
    AddAnimal \/ DelAnimalUpTo(MaxMapOps) \/ UpdateIdMapUpTo(MaxMapOps)

SpecUpdate == Init /\ [][NextUpdate]_vars

\* insertions and deletions
NextAddDel == AddAnimal \/ DelAnimal

SpecAddDel == Init /\ [][NextAddDel]_vars

\* renumbering, insertions and deletions
NextEdit == Renumber \/ AddAnimal \/ DelAnimal

SpecEdit == Init /\ [][NextEdit]_vars

(***************************************************************************)
(* State machine of the set-algebra operations.  Both operands are loaded  *)
(* with the renumber option from complete files whose lines list parents   *)
(* before offspring; the identities ascend or descend, so that *)
(* original and canonical identities differ and the operands may or may    *)
(* not share identities.  Neither operand is empty.  Operands of up to     *)
(* MaxUnrenumbered lines may also be loaded without the renumber option.   *)
(***************************************************************************)
Ascending(n, base) == [i \in 1..n |-> base + i]

Descending(n, base) == [i \in 1..n |-> base + n + 1 - i]

OrderedFiles(n, lab) ==
    {[i \in 1..n |-> <<lab[i], f[i][1], f[i][2]>>]
       : f \in {g \in [1..n -> (0..n) \X (0..n)] :
                  \A i \in 1..n :
                     /\ g[i][1] < i /\ g[i][2] < i
                     /\ g[i][1] # 0 => g[i][1] % 2 = 1
                     /\ g[i][2] # 0 => g[i][2] % 2 = 0}}

\* the parents of OrderedFiles are line numbers; FileOf writes identities
FileOf(lines, lab) ==
    [i \in 1..Len(lines) |->
        << lines[i][1],
           IF lines[i][2] = 0 THEN missing_parent ELSE lab[lines[i][2]],
           IF lines[i][3] = 0 THEN missing_parent ELSE lab[lines[i][3]] >>]

MergeFiles(max, labels) ==
    UNION {UNION {{FileOf(lines, lab) : lines \in OrderedFiles(n, lab)}
                  : lab \in labels[n]}
           : n \in 1..max}

LabelsA == [n \in 1..MaxA |-> {Ascending(n, 0), Descending(n, 0), Ascending(n, MaxB)}]

LabelsB == [n \in 1..MaxB |-> {Ascending(n, 0)}]

MatchRules == { <<"a">>, <<"a", "s", "d">>, <<"s", "d">> }

OperandsA ==
    {renumber(preprocess(lines)) : lines \in MergeFiles(MaxA, LabelsA)}
       \cup {preprocess(lines) : lines \in MergeFiles(MaxUnrenumbered, LabelsA)}

OperandsB ==
    {renumber(preprocess(lines)) : lines \in MergeFiles(MaxB, LabelsB)}
       \cup {preprocess(lines) : lines \in MergeFiles(MaxUnrenumbered, LabelsB)}

InitMerge ==
    /\ self \in OperandsA
    /\ other \in OperandsB
    /\ match_rule \in MatchRules
    /\ sim = SimIdle
    /\ ped_to_write = NoFlags
    /\ animals_to_write = << >>
    /\ pedfile = << >>
    /\ new_pedigree = NoResult
    /\ last = NoCall
    /\ nops = 0

Add ==
    /\ nops = 0
    /\ LET r == __add__(self, other, match_rule)
       IN  /\ self' = r.self
           /\ other' = r.other
           /\ ped_to_write' = r.ped_to_write
           /\ pedfile' = r.pedfile
           /\ new_pedigree' = r.ret
    /\ last' = [op |-> "__add__", args |-> <<other>>, ret |-> 0, pre |-> self]
    /\ nops' = 1
    /\ UNCHANGED <<sim, match_rule, animals_to_write>>

Sub ==
    /\ nops = 0
    /\ LET r == __sub__(self, other, match_rule)
       IN  /\ self' = r.self
           /\ other' = r.other
           /\ ped_to_write' = r.ped_to_write
           /\ pedfile' = r.pedfile
           /\ new_pedigree' = r.ret
    /\ last' = [op |-> "__sub__", args |-> <<other>>, ret |-> 0, pre |-> self]
    /\ nops' = 1
    /\ UNCHANGED <<sim, match_rule, animals_to_write>>

Intersection ==
    /\ nops = 0
    /\ LET r == intersection(self, other, match_rule)
       IN  /\ self' = r.self
           /\ other' = r.other
           /\ animals_to_write' = r.animals_to_write
           /\ new_pedigree' = r.ret
    /\ last' = [op |-> "intersection", args |-> <<other>>, ret |-> 0, pre |-> self]
    /\ nops' = 1
    /\ UNCHANGED <<sim, match_rule, ped_to_write, pedfile>>

Union ==
    /\ nops = 0
    /\ LET r == union(self, other, match_rule)
       IN  /\ self' = r.self
           /\ other' = r.other
           /\ new_pedigree' = r.ret
    /\ last' = [op |-> "union", args |-> <<other>>, ret |-> 0, pre |-> self]
    /\ nops' = 1
    /\ UNCHANGED <<sim, match_rule, ped_to_write, animals_to_write, pedfile>>

NextMerge == Add \/ Sub \/ Intersection \/ Union

SpecMerge == InitMerge /\ [][NextMerge]_vars

(***************************************************************************)
(* pad_id().  A string is the sequence of its characters; the characters   *)
(* here are decimal digits.  An identity of up to MaxPadDigits digits does *)
(* not fit the checker's integers, so it is carried as the digits of its   *)
(* decimal form, which is all pad_id reads of it.                          *)
(***************************************************************************)
pad_width == 15

RECURSIVE DecimalString(_)
\* '%s' % n and str(n) for an integer n >= 0
DecimalString(n) ==
    IF n < 10 THEN <<n>> ELSE Append(DecimalString(n \div 10), n % 10)

\* '0' * pl
Zeros(pl) == [i \in 1..pl |-> 0]

\* by: the birth year, an integer; animalID: the characters of str(animalID)
pad_id(by, animalID) ==
    LET l  == Len(animalID)
        pl == pad_width - l - 1
    IN  IF pl > 0
        THEN DecimalString(by) \o Zeros(pl) \o animalID \o DecimalString(l)
        ELSE DecimalString(by) \o animalID \o DecimalString(l)

BirthYears == {1900, 1950, 2024}

PadIdentities == {[i \in 1..l |-> d] : l \in 1..MaxPadDigits, d \in 1..9}

InitPad ==
    /\ self = EmptyPedigree
    /\ MergeIdle
    /\ last = NoCall
    /\ nops = 0

PadId ==
    /\ nops = 0
    /\ \E by \in BirthYears, animalID \in PadIdentities :
          last' = [op |-> "pad_id", args |-> <<by, animalID>>,
                   ret |-> pad_id(by, animalID), pre |-> self]
    /\ nops' = 1
    /\ UNCHANGED self
    /\ MergeUnchanged

NextPad == PadId

SpecPad == InitPad /\ [][NextPad]_vars

(***************************************************************************)
(* State machine of loading: preprocess() reads a file into an empty       *)
(* container.  A line names any identity or none as sire and as dam, also  *)
(* identities that have no line, and the same identity may be sire in one  *)
(* line and dam in another.                                                *)
(***************************************************************************)
LoadParents == {missing_parent} \cup (1..(MaxLoadLines + 1))

LoadOrders ==
    UNION {{o \in [1..n -> 1..MaxLoadLines] : \A i, j \in 1..n : i # j => o[i] # o[j]}
           : n \in 1..MaxLoadLines}

LoadFile(o, f) == [i \in 1..Len(o) |-> <<o[i], f[i][1], f[i][2]>>]

InitLoad ==
    /\ self = EmptyPedigree
    /\ \E o \in LoadOrders :
          \E f \in [1..Len(o) -> LoadParents \X LoadParents] :
             pedfile = LoadFile(o, f)
    /\ other = EmptyPedigree
    /\ match_rule = << >>
    /\ ped_to_write = NoFlags
    /\ animals_to_write = << >>
    /\ new_pedigree = NoResult
    /\ sim = SimIdle
    /\ last = NoCall
    /\ nops = 0

Preprocess ==
    /\ nops = 0
    /\ self' = preprocess(pedfile)
    /\ last' = [op |-> "preprocess", args |-> <<pedfile>>, ret |-> 0, pre |-> self]
    /\ nops' = 1
    /\ MergeUnchanged

NextLoad == Preprocess

SpecLoad == InitLoad /\ [][NextLoad]_vars

(***************************************************************************)
(* State machine of simulate(), called on an empty container.  Each action *)
(* is a stretch of the method between two random draws.                    *)
(***************************************************************************)
RanfValues == {1, 5, 9}

SimOptionsWide ==
    [simulate_n : 3..MaxSimN, simulate_g : {1, 2},
     simulate_ns : 0..MaxSimFounders, simulate_nd : 0..MaxSimFounders,
     simulate_sr : {5}, simulate_ir : {0, 5},
     simulate_mp : {0, 1}, simulate_po : {0, 1}, simulate_fs : {0, 1},
     simulate_pmd : 1..MaxSimPmd]

SimOptionsDeep ==
    [simulate_n : (MaxSimN + 1)..MaxSimDeepN, simulate_g : {1},
     simulate_ns : {2}, simulate_nd : {2},
     simulate_sr : {5}, simulate_ir : {0},
     simulate_mp : {0}, simulate_po : {0, 1}, simulate_fs : {0, 1},
     simulate_pmd : {1}]

\* founders that pass the three checks and together exceed the target size
SimOptionsCrowded ==
    {[simulate_n |-> n, simulate_g |-> 1,
      simulate_ns |-> n \div 2, simulate_nd |-> n - 1,
      simulate_sr |-> 5, simulate_ir |-> 0,
      simulate_mp |-> 0, simulate_po |-> 1, simulate_fs |-> 1,
      simulate_pmd |-> 1] : n \in 8..MaxSimCrowdedN}

SimOptions == SimOptionsWide \cup SimOptionsDeep \cup SimOptionsCrowded

InitSimulate ==
    /\ self = EmptyPedigree
    /\ other = EmptyPedigree
    /\ match_rule = << >>
    /\ ped_to_write = NoFlags
    /\ animals_to_write = << >>
    /\ pedfile = << >>
    /\ new_pedigree = NoResult
    /\ last = NoCall
    /\ nops = 0
    /\ sim \in {[SimIdle EXCEPT !.kw = kw] : kw \in SimOptions}

SimUnchanged ==
    UNCHANGED <<other, match_rule, ped_to_write, animals_to_write, pedfile,
                new_pedigree, nops>>

SimStart ==
    /\ sim.pc = "idle"
    /\ sim' = simulate_setup(sim.kw)
    /\ last' = [op |-> "simulate", args |-> <<sim.kw>>, ret |-> 0, pre |-> self]
    /\ UNCHANGED self
    /\ SimUnchanged

SimGeneration ==
    /\ sim.pc = "generation"
    /\ sim' = simulate_generation(sim)
    /\ UNCHANGED <<self, last>>
    /\ SimUnchanged

SimSlot ==
    /\ sim.pc = "slot"
    /\ \E ranf \in RanfValues : sim' = simulate_slot(sim, ranf)
    /\ UNCHANGED <<self, last>>
    /\ SimUnchanged

SimDraw ==
    /\ sim.pc = "draw"
    /\ LET sires == sire_indices(sim)
           dams  == dam_indices(sim)
       IN  IF sires = {} \/ dams = {}
           THEN sim' = [sim EXCEPT !.pc = "ValueError"]
           ELSE \E sire_draw \in sires, dam_draw \in dams :
                   sim' = simulate_draw(sim, sire_draw, dam_draw)
    /\ UNCHANGED <<self, last>>
    /\ SimUnchanged

SimSex ==
    /\ sim.pc = "sex"
    /\ \E ranf \in RanfValues : sim' = simulate_sex(sim, ranf)
    /\ UNCHANGED <<self, last>>
    /\ SimUnchanged

SimTranslate ==
    /\ sim.pc = "translate"
    /\ self' = simulate_translate(self, sim._pedholder, 0)
    /\ sim' = [sim EXCEPT !.pc = "done"]
    /\ UNCHANGED last
    /\ SimUnchanged

NextSimulate ==
    SimStart \/ SimGeneration \/ SimSlot \/ SimDraw \/ SimSex \/ SimTranslate

SpecSimulate == InitSimulate /\ [][NextSimulate]_vars

\* simulate() called on a container that was loaded and renumbered before
SimOptionsPopulated ==
    [simulate_n : 4..MaxSimN, simulate_g : {1},
     simulate_ns : {2}, simulate_nd : {2},
     simulate_sr : {5}, simulate_ir : {0, 5},
     simulate_mp : {0, 1}, simulate_po : {1}, simulate_fs : {1},
     simulate_pmd : {1}]

InitSimulatePopulated ==
    /\ self \in {renumber(preprocess(lines)) : lines \in AcyclicFiles}
    /\ other = EmptyPedigree
    /\ match_rule = << >>
    /\ ped_to_write = NoFlags
    /\ animals_to_write = << >>
    /\ pedfile = << >>
    /\ new_pedigree = NoResult
    /\ last = NoCall
    /\ nops = 0
    /\ sim \in {[SimIdle EXCEPT !.kw = kw] : kw \in SimOptionsPopulated}

SpecSimulatePopulated == InitSimulatePopulated /\ [][NextSimulate]_vars

(***************************************************************************)
(* Invariant I1 on a record sequence: a known sire or dam reference is     *)
(* strictly smaller than the record's 1-based position.                    *)
(***************************************************************************)
I1(ped) ==
    \A i \in 1..Len(ped) :
        /\ ped[i].sireID # missing_parent => ped[i].sireID < i
        /\ ped[i].damID # missing_parent => ped[i].damID < i

LastWith(ped, field, v) ==
    CHOOSE i \in 1..Len(ped) :
        /\ ped[i][field] = v
        /\ \A j \in (i + 1)..Len(ped) : ped[j][field] # v

DerivedMap(ped, key, val) ==
    [k \in {ped[i][key] : i \in 1..Len(ped)} |-> ped[LastWith(ped, key, k)][val]]

MapsDerivedFrom(P, ped) ==
    /\ P.idmap = DerivedMap(ped, "originalID", "animalID")
    /\ P.backmap = DerivedMap(ped, "renumberedID", "originalID")
    /\ P.namemap = DerivedMap(ped, "name", "originalID")
    /\ P.namebackmap = DerivedMap(ped, "originalID", "name")

SameMaps(P, Q) ==
    /\ P.idmap = Q.idmap
    /\ P.backmap = Q.backmap
    /\ P.namemap = Q.namemap
    /\ P.namebackmap = Q.namebackmap

MutualInverses(P) ==
    /\ \A x \in DOMAIN P.idmap :
          P.idmap[x] \in DOMAIN P.backmap /\ P.backmap[P.idmap[x]] = x
    /\ \A r \in DOMAIN P.backmap :
          P.backmap[r] \in DOMAIN P.idmap /\ P.idmap[P.backmap[r]] = r

\* C2: delanimal(x), for x present in idmap, removes exactly the record whose
\* original identity is x and exactly that record's entries of the four maps,
\* leaves everything else in place, and returns 1 (in every state reached from a
\* renumbered container by delanimal calls).
C2_DelanimalRemovesExactlyOne ==
    (last.op = "delanimal" /\ last.args[1] \in DOMAIN last.pre.idmap) =>
        LET x == last.args[1]
            P == last.pre
        IN  /\ last.ret = 1
            /\ \E k \in 1..Len(P.pedigree) :
                  /\ P.pedigree[k].originalID = x
                  /\ self.pedigree = DelAt(P.pedigree, k - 1)
                  /\ self.idmap = DictDel(P.idmap, x)
                  /\ self.backmap = DictDel(P.backmap, P.pedigree[k].renumberedID)
                  /\ self.namemap = DictDel(P.namemap, P.pedigree[k].name)
                  /\ self.namebackmap = DictDel(P.namebackmap, x)

\* C3: idmap and backmap are mutual inverses and the four maps equal what
\* updateidmap would rebuild from the current records, in every state reached
\* from a renumbered container by addanimal, delanimal and updateidmap calls.
C3_MapsCoherent ==
    /\ MutualInverses(self)
    /\ SameMaps(self, updateidmap(self))

MaxCanonical(ped) == SetMax({ped[i].animalID : i \in 1..Len(ped)})

\* C4: after a successful addanimal on a renumbered container the new record is
\* appended last, its animalID and renumberedID are the largest canonical
\* identity that existed before the call plus one, its parents are smaller
\* canonical identities or missing_parent, and I1 still holds.
C4_AddanimalNextCanonical ==
    (last.op = "addanimal" /\ last.ret = 1) =>
        LET P  == last.pre
            n  == Len(self.pedigree)
            an == self.pedigree[n]
        IN  /\ n = Len(P.pedigree) + 1
            /\ SubSeq(self.pedigree, 1, n - 1) = P.pedigree
            /\ an.animalID = MaxCanonical(P.pedigree) + 1
            /\ an.renumberedID = an.animalID
            /\ an.sireID = missing_parent
                  \/ (an.sireID \in DictValues(P.idmap) /\ an.sireID < an.animalID)
            /\ an.damID = missing_parent
                  \/ (an.damID \in DictValues(P.idmap) /\ an.damID < an.animalID)
            /\ I1(P.pedigree) => I1(self.pedigree)

\* a parent argument that names an animal and has no entry in idmap
Unresolved(P, p) == p # 0 /\ p \notin DOMAIN P.idmap

\* C5: addanimal with a sire or dam identity that does not resolve through the
\* maps returns 0 and changes neither the record sequence nor any of the maps.
C5_AddanimalUnresolvedIsNoOp ==
    (last.op = "addanimal"
       /\ (Unresolved(last.pre, last.args[2]) \/ Unresolved(last.pre, last.args[3])))
        => (last.ret = 0 /\ self = last.pre)

\* C6: after updateidmap the four maps hold exactly the entries derived from the
\* records now in the sequence, whatever they held before, and a second call
\* yields identical maps.
C6_UpdateidmapRebuilds ==
    last.op = "updateidmap" =>
        /\ self.pedigree = last.pre.pedigree
        /\ MapsDerivedFrom(self, self.pedigree)
        /\ SameMaps(updateidmap(self), self)

\* updateidmap has run on maps that held an entry for a record no longer in the
\* sequence and lacked one for a record that is
C6_Witness ==
    /\ last.op = "updateidmap"
    /\ \E x \in DOMAIN last.pre.idmap :
          \A i \in 1..Len(last.pre.pedigree) : last.pre.pedigree[i].originalID # x
    /\ \E i \in 1..Len(last.pre.pedigree) :
          last.pre.pedigree[i].originalID \notin DOMAIN last.pre.idmap
    /\ Len(self.pedigree) > 0

(***************************************************************************)
(* Duplicates under the match rule: the parent of a record is resolved by  *)
(* canonical position in the record's own container; both parents missing *)
(* match, exactly one missing does not, two known parents are compared by  *)
(* original identity.                                                      *)
(***************************************************************************)
ParentOriginal(P, ref) == P.pedigree[ref].originalID

ParentsMatch(S, O, ra, rb) ==
    IF ra = missing_parent /\ rb = missing_parent THEN TRUE
    ELSE IF ra = missing_parent \/ rb = missing_parent THEN FALSE
    ELSE ParentOriginal(S, ra) = ParentOriginal(O, rb)

CodeMatches(S, O, a, b, code) ==
    IF code = "a" THEN a.originalID = b.originalID
    ELSE IF code = "s" THEN ParentsMatch(S, O, a.sireID, b.sireID)
    ELSE ParentsMatch(S, O, a.damID, b.damID)

Duplicate(S, O, a, b, rule) ==
    \A k \in 1..Len(rule) : CodeMatches(S, O, a, b, rule[k])

Records(P) == {P.pedigree[i] : i \in 1..Len(P.pedigree)}

HasDuplicateIn(S, O, a, rule) == \E b \in Records(O) : Duplicate(S, O, a, b, rule)

IsDuplicated(S, O, b, rule) == \E a \in Records(S) : Duplicate(S, O, a, b, rule)

Covered(S, O, rule) == \A a \in Records(S) : HasDuplicateIn(S, O, a, rule)

Flag(w, id) == id \in DOMAIN w /\ w[id]

OriginalIDs(P) == {r.originalID : r \in Records(P)}

\* C7: after __add__ every record of A is flagged for writing, a record b of
\* B is flagged if and only if no record of A is a duplicate of b under the
\* match rule, and when every record of A has a duplicate in B the rebuilt
\* container has exactly as many records as B.
C7_UnionRetains ==
    last.op = "__add__" =>
        /\ \A a \in Records(self) : Flag(ped_to_write.a, a.animalID)
        /\ \A b \in Records(other) :
              Flag(ped_to_write.b, b.animalID) <=> ~IsDuplicated(self, other, b, match_rule)
        /\ Covered(self, other, match_rule) =>
              Len(new_pedigree.ped.pedigree) = Len(other.pedigree)

\* C8: after __sub__ a record a of A is flagged for writing if and only if
\* no record of B is a duplicate of it, no record of B is flagged, the file
\* holds one line per flagged record of A, and when every record of A has a
\* duplicate in B the rebuilt container is empty.
C8_DifferenceIsAMinusB ==
    last.op = "__sub__" =>
        /\ \A a \in Records(self) :
              Flag(ped_to_write.a, a.animalID) <=> ~HasDuplicateIn(self, other, a, match_rule)
        /\ \A b \in Records(other) : ~Flag(ped_to_write.b, b.animalID)
        /\ Len(pedfile) = Cardinality({a \in Records(self) :
                                ~HasDuplicateIn(self, other, a, match_rule)})
        /\ Covered(self, other, match_rule) => Len(new_pedigree.ped.pedigree) = 0

\* C9: after intersection the retained records are exactly the records of A
\* that have a duplicate among all the records of B, so a container A whose
\* records all have a duplicate in B is retained whole.
C9_IntersectionRetainsAnyMatch ==
    last.op = "intersection" =>
        /\ \A a \in Records(self) :
              (\E k \in 1..Len(animals_to_write) : animals_to_write[k] = a)
                 <=> HasDuplicateIn(self, other, a, match_rule)
        /\ Covered(self, other, match_rule) =>
              Len(animals_to_write) = Len(self.pedigree)

\* C10: under the identity-only match rule, the union of two renumbered
\* containers that share no original identity keeps every record of both:
\* the rebuilt container has |A| + |B| records.
C10_UnionOfDisjoint ==
    (/\ last.op = "__add__"
     /\ match_rule = <<"a">>
     /\ OriginalIDs(self) \cap OriginalIDs(other) = {})
    => /\ new_pedigree.kind = "pedigree"
       /\ Len(new_pedigree.ped.pedigree) = Len(self.pedigree) + Len(other.pedigree)
       /\ OriginalIDs(new_pedigree.ped) = OriginalIDs(self) \cup OriginalIDs(other)

C10_Witness ==
    /\ last.op = "__add__"
    /\ match_rule = <<"a">>
    /\ OriginalIDs(self) \cap OriginalIDs(other) = {}
    /\ Len(self.pedigree) = 3
    /\ Len(other.pedigree) = 4
    /\ Len(new_pedigree.ped.pedigree) = 7
    /\ \E r \in Records(self) : r.sireID # missing_parent /\ r.damID # missing_parent

MergeOps == {"__add__", "__sub__", "intersection"}

\* C11: a merge operation called on two renumbered containers leaves the
\* record sequences, the four maps and the flag of both operands as they
\* were, and a container it returns is a new object, neither operand.
C11_MergeLeavesInputs ==
    (/\ last.op \in MergeOps
     /\ last.pre.pedigree_is_renumbered = 1
     /\ last.args[1].pedigree_is_renumbered = 1)
    => /\ self = last.pre
       /\ other = last.args[1]
       /\ new_pedigree.kind = "pedigree" => new_pedigree.obj \notin {"self", "other"}

C11_Witness ==
    /\ last.op = "__add__"
    /\ last.pre.pedigree_is_renumbered = 1
    /\ last.args[1].pedigree_is_renumbered = 1
    /\ new_pedigree.kind = "pedigree"
    /\ new_pedigree.ped.pedigree # self.pedigree
    /\ new_pedigree.ped.pedigree # other.pedigree
    /\ self = last.pre
    /\ other = last.args[1]

\* C12: union() returns what __add__() returns for the same two operands.
C12_UnionIsAdd ==
    last.op = "union" =>
        new_pedigree = __add__(last.pre, last.args[1], match_rule).ret

(***************************************************************************)
(* simulate(): the parents recorded for an animal of the holding buffer.   *)
(***************************************************************************)
SimSire(k) == sim._pedholder[k].sireID

SimDam(k) == sim._pedholder[k].damID

BothKnown(k) == SimSire(k) > 0 /\ SimDam(k) > 0

C16_FounderCountsFatal ==
    (/\ sim.pc # "idle"
     /\ \/ sim.kw.simulate_ns >= sim.kw.simulate_n
        \/ sim.kw.simulate_nd >= sim.kw.simulate_n
        \/ sim.kw.simulate_ns + sim.kw.simulate_nd > sim.kw.simulate_n)
    => /\ sim.pc = "sys.exit"
       /\ sim._totalna = 0

(***************************************************************************)
(* preprocess(): the identities a file names as parents and the identities *)
(* that have a line.                                                       *)
(***************************************************************************)
FileSires(lines) == {lines[i][2] : i \in 1..Len(lines)} \ {missing_parent}

FileDams(lines) == {lines[i][3] : i \in 1..Len(lines)} \ {missing_parent}

FileAnimals(lines) == {lines[i][1] : i \in 1..Len(lines)}

Unrecorded(lines) == (FileSires(lines) \cup FileDams(lines)) \ FileAnimals(lines)

RecordsOf(ped, id) == {k \in 1..Len(ped) : ped[k].originalID = id}

\* C17: after preprocess() the container holds the records of the lines
\* followed by exactly one record, with both parents missing, for every
\* identity that is named as a sire or a dam and has no line; an identity
\* with a line has only that record.
C17_MissingParentsSynthesized ==
    last.op = "preprocess" =>
        LET lines == last.args[1]
            n     == Len(lines)
            ped   == self.pedigree
        IN  /\ Len(ped) = n + Cardinality(Unrecorded(lines))
            /\ \A i \in 1..n : ped[i] = NewAnimal(lines[i])
            /\ \A k \in (n + 1)..Len(ped) :
                  /\ ped[k].originalID \in Unrecorded(lines)
                  /\ ped[k].sireID = missing_parent
                  /\ ped[k].damID = missing_parent
            /\ \A id \in Unrecorded(lines) \cup FileAnimals(lines) :
                  Cardinality(RecordsOf(ped, id)) = 1

C17_Witness ==
    /\ last.op = "preprocess"
    /\ Len(last.args[1]) = 2
    /\ Cardinality(Unrecorded(last.args[1])) = 1
    /\ Unrecorded(last.args[1]) \subseteq (FileSires(last.args[1]) \cap FileDams(last.args[1]))
    /\ FileSires(last.args[1]) \cap FileAnimals(last.args[1]) # {}
    /\ Len(self.pedigree) = 3
    /\ self.pedigree[3].originalID \in Unrecorded(last.args[1])

\* C18: for a 4-digit birth year and an identity of 1 to 13 digits, pad_id
\* returns a string of 15 characters.
C18_PadIdLength ==
    (/\ last.op = "pad_id"
     /\ Len(DecimalString(last.args[1])) = 4
     /\ Len(last.args[2]) \in 1..13)
        => Len(last.ret) = 15

\* C19: after any sequence of addanimal and delanimal calls on a renumbered
\* container, the record at 1-based position k has animalID k.
C19_AnimalIDIsPosition ==
    \A k \in 1..Len(self.pedigree) : self.pedigree[k].animalID = k

ParentInPlace(ped, i, p) ==
    p # missing_parent =>
        /\ p \in 1..Len(ped)
        /\ p < i
        /\ ped[p].animalID = p

\* C20: while pedigree_is_renumbered is 1, through renumber, addanimal and
\* delanimal, every known sireID and damID is the position of a record that
\* is present, carries that ID and stands strictly before the referring
\* record.
C20_FlagMeansParentsInPlace ==
    self.pedigree_is_renumbered = 1 =>
        \A i \in 1..Len(self.pedigree) :
            /\ ParentInPlace(self.pedigree, i, self.pedigree[i].sireID)
            /\ ParentInPlace(self.pedigree, i, self.pedigree[i].damID)

\* C21: in __add__, on the code 's' (and likewise 'd') a pair (a, b) is a
\* match when both have that parent missing, a mismatch when exactly one has
\* it missing, and otherwise is decided by comparing the original identities
\* of the two parents, each looked up in its own container.
C21_MissingParentPolicy ==
    last.op = "__add__" =>
        \A a \in Records(self) : \A b \in Records(other) :
            /\ add_mismatch(self, other, a, b, "s")
                  <=> ~ParentsMatch(self, other, a.sireID, b.sireID)
            /\ add_mismatch(self, other, a, b, "d")
                  <=> ~ParentsMatch(self, other, a.damID, b.damID)

\* the indices of a pool, counted from 0
PoolIndices(pool) == 0 .. (Len(pool) - 1)

FilledSlots == {k \in DOMAIN sim._pedholder : sim._pedholder[k] # None}

Newest == sim._pedholder[sim._totalna]

JustCreated == sim.pc = "slot" /\ sim._j > 0

\* the counts of dams and sires before the newest animal was counted
DamsBefore == IF Newest.sex = "f" THEN sim._tgdam - 1 ELSE sim._tgdam

SiresBefore == IF Newest.sex = "m" THEN sim._tgsire - 1 ELSE sim._tgsire

SexByRule ==
    IF sim.sexdraw < sim.kw.simulate_sr /\ DamsBefore < sim._smf THEN "f"
    ELSE IF SiresBefore < sim._smm THEN "m"
    ELSE "f"

Last(pool) == pool[Len(pool)]

EarlierOrNone(parent, animalID) == parent = 0 \/ (parent > 0 /\ parent < animalID)

C29_ZeroParentAccepted ==
    (/\ last.op = "addanimal"
     /\ last.args[2] = 0 \/ last.args[3] = 0
     /\ ~Unresolved(last.pre, last.args[2])
     /\ ~Unresolved(last.pre, last.args[3])
     /\ missing_parent \notin DOMAIN last.pre.idmap)
    => /\ last.ret = 1
       /\ Len(self.pedigree) = Len(last.pre.pedigree) + 1
       /\ last.args[2] = 0 => self.pedigree[Len(self.pedigree)].sireID = missing_parent
       /\ last.args[3] = 0 => self.pedigree[Len(self.pedigree)].damID = missing_parent

\* C30: a delanimal call that returns 0 leaves the record sequence and the
\* four maps exactly as they were before the call.
C30_FailedDeleteChangesNothing ==
    (last.op = "delanimal" /\ last.ret = 0) =>
        /\ self.pedigree = last.pre.pedigree
        /\ SameMaps(self, last.pre)

====
